---- MODULE Spec2Model ----
(***************************************************************************)
(* Model of src/src/components/AsciiFluid.tsx: the ASCII metaball field    *)
(* animator.  One React component instance owns the render target          *)
(* (preRef.current, a <pre> element).  Every run of the effect (start())   *)
(* creates a closure with its own time, blobs, buffer and animationId and  *)
(* registers renderFrame with the host's requestAnimationFrame; the        *)
(* effect's cleanup (stop()) calls cancelAnimationFrame(animationId).      *)
(*                                                                         *)
(* src/src/lib/blog.ts reads the posts directory at build time; its        *)
(* functions are modelled on the directory contents postsDirectory.        *)
(* src/src/app/blog/[slug]/page.tsx builds and serves the post pages from   *)
(* them.  scripts/migrate-blog.js is the command line tool that writes     *)
(* post files into src/posts; src/src/app/page.tsx rotates the title of    *)
(* the home page with a module-level index and an interval.                *)
(*                                                                         *)
(* Numbers are fixed point: time and Math.random() draws in thousandths,   *)
(* angles in milliradians, sines in thousandths, blob x, y and radius in   *)
(* tenths of a cell, field sums and norm in thousandths.                   *)
(***************************************************************************)
EXTENDS Integers, Sequences, FiniteSets, TLC

(* ------------------------------ bounds -------------------------------- *)
\* effect runs (start() calls) explored for the one component instance
MaxRuns == 2
\* ticks explored per effect run
MaxTicks == 2
\* seeds of the host's Math.random() generator explored
MaxSeed == 2
\* blobs per run (the source creates 18; the field sum is the same loop)
numBlobs == 2
\* sets of Math.random() draws explored for a run observed late in its life
MaxSample == 5
\* sets of draws explored for the first of two runs compared with each other
MaxPairs == 2
\* files in the posts directory
MaxFiles == 3
\* post files in the directory the post pages are built from
MaxPosts == 2
\* characters of a title
MaxLen == 3
\* calls of the CLI
MaxOps == 2
\* runs of the effect of the home page
MaxEffects == 3
\* calls of updateTitle by the interval
MaxUpdates == 8

(* ------------------------- program constants -------------------------- *)
width == 160
height == 56
\* const chars = "       .,-~:;=!*#$@"
chars == <<" ", " ", " ", " ", " ", " ", " ", ".", ",", "-", "~", ":", ";",
           "=", "!", "*", "#", "$", "@">>
\* time += 0.005, in thousandths
TimeStep == 5
\* pi in milliradians
PiMilli == 3142

\* a hole of new Array(width * height), and what string concatenation makes of it
Undefined == "undefined"
UndefinedText == <<"u", "n", "d", "e", "f", "i", "n", "e", "d">>
\* '2024-01-01', the date of a post without one, as days since 1970-01-01
DefaultDate == 19723
\* const wordsPerMinute = 200
wordsPerMinute == 200

\* stopTime of a run whose cleanup has not run; stamp of a cell never computed
NotStopped == 0 - 1
Never == 0 - 1

VARIABLES
  preRef,        \* preRef.current: "pre" (the element) or "null"
  innerText,     \* the text of the pre element, a sequence of characters
  time,          \* time[r]: the clock of run r's closure, in thousandths
  blobs,         \* blobs[r]: the blob array of run r's closure
  buffer,        \* buffer[r]: the glyph buffer of run r's closure
  animationId,   \* animationId[r]: the handle run r's cleanup cancels
  rafCallbacks,  \* the host's pending animation-frame callbacks
  nextHandle,    \* the next handle requestAnimationFrame returns
  pc,            \* position inside the renderFrame call in progress
  cur,           \* the run whose renderFrame is in progress (0: none)
  phase,         \* React lifecycle of the component instance
  stopTime,      \* history: time[r] when run r's cleanup returned
  writes,        \* history: writes[r] = writes of run r to the render target
  lastWrite,     \* history: who wrote the render target last, and from what
  bufStamp,      \* history: bufStamp[r][y] = time[r] when the cells of row y were computed
  postsDirectory,\* the files of src/posts, in the order readdirSync lists them
  allPostsData,  \* what the latest call of getAllPosts returned
  called,        \* history: getAllPosts has been called
  params,        \* params.slug of the latest request of a post page
  post,          \* what getPostBySlug returned to it: <<>> is null, <<p>> the post p
  page,          \* what the post page answered: "none", "notFound" or "article"
  staticParams,  \* the slugs generateStaticParams returned to the build
  title,         \* the title the latest call of the CLI worked on
  slug,          \* the slug it took for the post
  outputPath,    \* the path it computed for the post file, a sequence of segments
  disk,          \* the files on disk: [path, content], content the number of the write
  lastOp,        \* history: the latest call of the CLI and what it did
  currentTitleIndex, \* the module-level index of the title shown
  textContent,   \* the text of the element #rotating-title
  intervalId,    \* intervalId[e]: the handle the cleanup of effect run e clears
  intervals,     \* the host's active intervals
  nextInterval,  \* the next handle setInterval returns
  home,          \* React lifecycle of the Home instance
  lastUpdate     \* history: the latest call of updateTitle

\* the variables of src/lib/blog.ts
blogVars == <<postsDirectory, allPostsData, called, params, post, page, staticParams>>

\* the variables of src/components/AsciiFluid.tsx
fluidVars == <<preRef, innerText, time, blobs, buffer, animationId, rafCallbacks,
               nextHandle, pc, cur, phase, stopTime, writes, lastWrite, bufStamp>>

\* the variables of scripts/migrate-blog.js
cliVars == <<title, slug, outputPath, disk, lastOp>>

\* the variables of src/app/page.tsx
homeVars == <<currentTitleIndex, textContent, intervalId, intervals, nextInterval,
              home, lastUpdate>>

vars == <<fluidVars, blogVars, cliVars, homeVars>>

Cells == 0 .. (width * height - 1)

\* Storage of the two large values.  The flat array buffer and the flat string
\* innerText are kept in chunks of `width` elements; At and TextAt read them
\* by their flat index, Pack chunks a flat sequence.
At(buf, idx) == buf[idx \div width][idx % width]
NewArray == [c \in 0 .. (height - 1) |-> [o \in 0 .. (width - 1) |-> Undefined]]
Pack(seq) ==
  [c \in 1 .. ((Len(seq) + width - 1) \div width) |->
     SubSeq(seq, (c - 1) * width + 1,
            IF c * width < Len(seq) THEN c * width ELSE Len(seq))]
TextLen(tx) == IF Len(tx) = 0 THEN 0 ELSE (Len(tx) - 1) * width + Len(tx[Len(tx)])
TextAt(tx, i) == tx[((i - 1) \div width) + 1][((i - 1) % width) + 1]
Runs == 1 .. Len(time)

(* ------------------------------ numerics ------------------------------ *)
\* Math.random(): the k-th draw of a generator seeded with seed, in [0, 1)
Random(seed, k) == (seed * 7901 + k * 6151 + seed * k * 389) % 1000

\* Math.sin on milliradians (a >= 0), result in thousandths (Bhaskara's formula)
Sin(a) ==
  LET r == a % (2 * PiMilli)
      x == IF r > PiMilli THEN r - PiMilli ELSE r
      p == (x * (PiMilli - x)) \div 100
      q == (PiMilli * PiMilli) \div 100
      s == (16000 * p) \div (5 * q - 4 * p)
  IN IF r > PiMilli THEN 0 - s ELSE s

\* Math.cos
Cos(a) == Sin(a + PiMilli \div 2)

\* faulty variant: the blob array outlives the effect run
NewBlob_Carried(seed, i) ==
  IF Len(blobs) > 0
  THEN blobs[Len(blobs)][i + 1]
  ELSE [ x      |-> (width * 10) \div 2,
         y      |-> (height * 10) \div 2,
         kx     |-> (Random(seed, 5 * i) - 500) * 2,
         ky     |-> (Random(seed, 5 * i + 1) - 500) * 2,
         speed  |-> 200 + (Random(seed, 5 * i + 2) * 400) \div 1000,
         offset |-> Random(seed, 5 * i + 3) * 100,
         radius |-> 50 + (Random(seed, 5 * i + 4) * 80) \div 1000 ]

\* one element of Array.from({length: numBlobs}, (_, i) => ({...}))
NewBlob(seed, i) ==
  [ x      |-> (width * 10) \div 2,
    y      |-> (height * 10) \div 2,
    kx     |-> (Random(seed, 5 * i) - 500) * 2,
    ky     |-> (Random(seed, 5 * i + 1) - 500) * 2,
    speed  |-> 200 + (Random(seed, 5 * i + 2) * 400) \div 1000,
    offset |-> Random(seed, 5 * i + 3) * 100,
    radius |-> 50 + (Random(seed, 5 * i + 4) * 80) \div 1000 ]

NewBlobs(seed) == [i \in 1 .. numBlobs |-> NewBlob(seed, i - 1)]

\* the element initialiser with the k-th sampled set of Math.random() draws:
\* kx, ky in [-1, 1), speed in [0.2, 0.6), offset in [0, 100), radius in [5, 13)
SampleBlob(k) ==
  [ x      |-> (width * 10) \div 2,
    y      |-> (height * 10) \div 2,
    kx     |-> (((k * 617) % 1000) - 500) * 2,
    ky     |-> (((k * 271) % 1000) - 500) * 2,
    speed  |-> 200 + ((k * 133) % 400),
    offset |-> (k * 31416 + k * k * 1571) % 100000,
    radius |-> 50 + (((k * 377) % 1000) * 80) \div 1000 ]

\* faulty variant: the phase is accumulated into the blob (b.offset += time)
MoveBlob_Retuned(b, t) ==
  [ b EXCEPT
      !.x = (width * 10) \div 2
            + (Sin((t * b.speed) \div 1000 + b.offset) * ((width * 35) \div 10)) \div 1000
            + (Cos((t * 2 * b.speed) \div 10000) * 150) \div 1000,
      !.y = (height * 10) \div 2
            + (Cos((t * b.speed * 8) \div 10000 + b.offset) * ((height * 35) \div 10)) \div 1000
            + (Sin((t * 3 * b.speed) \div 10000) * 80) \div 1000,
      !.radius = 90 + (Sin(t * 3 + b.offset) * 30) \div 1000,
      !.offset = (b.offset + t) % 100000 ]

\* faulty variant: the radius breathes around the blob's own radius
\* (b.radius = b.radius + sin * 3); x and y as in the source
MoveBlob_OwnRadius(b, t) ==
  [ MoveBlob_Retuned(b, t) EXCEPT
      !.offset = b.offset,
      !.radius = b.radius + (Sin(t * 3 + b.offset) * 30) \div 1000 ]

\* faulty variant: the orbit spans the whole grid (amplitude 0.5 of the size)
MoveBlob_FullSpan(b, t) ==
  [ b EXCEPT
      !.x = (width * 10) \div 2
            + (Sin((t * b.speed) \div 1000 + b.offset) * ((width * 50) \div 10)) \div 1000
            + (Cos((t * 2 * b.speed) \div 10000) * 150) \div 1000,
      !.y = (height * 10) \div 2
            + (Cos((t * b.speed * 8) \div 10000 + b.offset) * ((height * 50) \div 10)) \div 1000
            + (Sin((t * 3 * b.speed) \div 10000) * 80) \div 1000,
      !.radius = 90 + (Sin(t * 3 + b.offset) * 30) \div 1000 ]

\* the body of blobs.forEach(b => {...}) at clock t
MoveBlob(b, t) ==
  [ b EXCEPT
      !.x = (width * 10) \div 2
            + (Sin((t * b.speed) \div 1000 + b.offset) * ((width * 35) \div 10)) \div 1000
            + (Cos((t * 2 * b.speed) \div 10000) * 150) \div 1000,
      !.y = (height * 10) \div 2
            + (Cos((t * b.speed * 8) \div 10000 + b.offset) * ((height * 35) \div 10)) \div 1000
            + (Sin((t * 3 * b.speed) \div 10000) * 80) \div 1000,
      !.radius = 90 + (Sin(t * 3 + b.offset) * 30) \div 1000 ]

\* faulty variant: a Math.random() draw enters the field in every tick (the
\* generator has advanced with every call the host served)
Contribution_Noisy(x, y, b) ==
  LET dx == x * 10 - b.x
      dy == ((y * 10 - b.y) * 22) \div 10
      rSq == b.radius * b.radius
      distSq == dx * dx + dy * dy
  IN (rSq * 2500) \div (distSq + 800) + Random(nextHandle, x + y)

\* (rSq * 2.5) / (distSq + 8) for cell (x, y) and blob b, in thousandths
Contribution(x, y, b) ==
  LET dx == x * 10 - b.x
      dy == ((y * 10 - b.y) * 22) \div 10
      rSq == b.radius * b.radius
      distSq == dx * dx + dy * dy
  IN (rSq * 2500) \div (distSq + 800)

RECURSIVE SumField(_, _, _, _)
\* for (let b of blobs) sumField += ...
SumField(x, y, bs, k) ==
  IF k > Len(bs) THEN 0
  ELSE Contribution(x, y, bs[k]) + SumField(x, y, bs, k + 1)

\* faulty variant: the threshold is not subtracted
Norm_NoThreshold(val) ==
  LET n0 == (val * 7) \div 10
      n1 == IF n0 < 0 THEN 0 ELSE n0
  IN IF n1 > 1000 THEN 1000 ELSE n1

\* faulty variant: `if (norm < 0) norm = 0` is missing
Norm_UpperClampOnly(val) ==
  LET n0 == ((val - 950) * 7) \div 10
  IN IF n0 > 1000 THEN 1000 ELSE n0

\* norm = (val - 0.95) * 0.7 clamped to [0, 1], in thousandths
Norm(val) ==
  LET n0 == ((val - 950) * 7) \div 10
      n1 == IF n0 < 0 THEN 0 ELSE n0
  IN IF n1 > 1000 THEN 1000 ELSE n1

\* faulty variant: the ramp length taken for the last index
CharIdx_FullLength(val) == (Norm(val) * Len(chars)) \div 1000

\* faulty variant: the ramp is indexed from its solid end
CharIdx_Inverted(val) == ((1000 - Norm(val)) * (Len(chars) - 1)) \div 1000

\* Math.floor(norm * (chars.length - 1))
CharIdx(val) == (Norm(val) * (Len(chars) - 1)) \div 1000

\* chars[charIdx]
Glyph(i) == IF i \in 0 .. (Len(chars) - 1) THEN chars[i + 1] ELSE Undefined

\* faulty variant: the field pass stops one row short
GridRows_ShortByOne == 0 .. (height - 2)

\* the rows the loop `for (let y = 0; y < height; y++)` of the field pass visits
GridRows == 0 .. (height - 1)

\* the double loop over the grid: every visited cell gets its glyph
FillBuffer(buf, bs) ==
  [c \in 0 .. (height - 1) |-> [o \in 0 .. (width - 1) |->
     LET idx == c * width + o
     IN IF (idx \div width) \in GridRows
        THEN Glyph(CharIdx(SumField(idx % width, idx \div width, bs, 1)))
        ELSE At(buf, idx)]]

\* the rows whose cells that pass assigns get the clock of the pass as stamp
FillStamp(st, t) ==
  [y \in 0 .. (height - 1) |-> IF y \in GridRows THEN t ELSE st[y]]

(* ---------------------------- serialization --------------------------- *)
\* output += v
Str(v) == IF v = Undefined THEN UndefinedText ELSE <<v>>

\* faulty variant: line breaks only between rows
RowEnd_Separator(y) == IF y = height - 1 THEN <<>> ELSE <<"\n">>

\* what follows the glyphs of row y in the output
RowEnd(y) == <<"\n">>

RECURSIVE RowGlyphs(_, _, _, _)
\* the glyphs of row y for x in lo .. hi - 1, in the order the inner loop appends them
RowGlyphs(buf, y, lo, hi) ==
  IF lo >= hi THEN <<>>
  ELSE IF hi = lo + 1 THEN Str(At(buf, lo + y * width))
  ELSE LET mid == (lo + hi) \div 2
       IN RowGlyphs(buf, y, lo, mid) \o RowGlyphs(buf, y, mid, hi)

\* one pass of the outer loop: the row's glyphs, then output += "\n"
RowText(buf, y) == RowGlyphs(buf, y, 0, width) \o RowEnd(y)

RECURSIVE Rows(_, _, _)
\* the rows lo .. hi - 1 in the order the outer loop appends them
Rows(buf, lo, hi) ==
  IF lo >= hi THEN <<>>
  ELSE IF hi = lo + 1 THEN RowText(buf, lo)
  ELSE LET mid == (lo + hi) \div 2
       IN Rows(buf, lo, mid) \o Rows(buf, mid, hi)

\* the string the nested loops build
Output(buf) == Rows(buf, 0, height)

(* ------------------------------ the host ------------------------------ *)
\* requestAnimationFrame(renderFrame) called by run r: returns handle h
RequestAnimationFrame(q, h, r) == q \cup {[id |-> h, run |-> r]}

\* cancelAnimationFrame(h)
CancelAnimationFrame(q, h) == {c \in q : c.id # h}

PendingOf(r) == {c \in rafCallbacks : c.run = r}

\* the animator is Running from start() until stop() of the latest run
Running == Len(time) > 0 /\ stopTime[Len(time)] = NotStopped

(* ------------------------------- Init --------------------------------- *)
\* no post file is looked at while the page animates
NoPosts ==
  /\ postsDirectory = <<>>
  /\ allPostsData = <<>>
  /\ called = FALSE
  /\ params = <<>>
  /\ post = <<>>
  /\ page = "none"
  /\ staticParams = <<>>

\* the component before its first commit
Unmounted ==
  /\ preRef = "null"
  /\ innerText = <<>>
  /\ time = <<>>
  /\ blobs = <<>>
  /\ buffer = <<>>
  /\ animationId = <<>>
  /\ rafCallbacks = {}
  /\ nextHandle = 1
  /\ pc = "idle"
  /\ cur = 0
  /\ phase = "unmounted"
  /\ stopTime = <<>>
  /\ writes = <<>>
  /\ lastWrite = [run |-> 0, time |-> 0, stopped |-> FALSE, latest |-> 0, stamps |-> {}]
  /\ bufStamp = <<>>

\* the CLI has not been run
NoCli ==
  /\ title = <<>>
  /\ slug = <<>>
  /\ outputPath = <<>>
  /\ disk = {}
  /\ lastOp = [mode |-> "none", n |-> 0, existed |-> FALSE, answer |-> <<>>, written |-> FALSE]

\* the home page has not been loaded: the module is evaluated on load
NoHome ==
  /\ currentTitleIndex = 0
  /\ textContent = "none"
  /\ intervalId = <<>>
  /\ intervals = {}
  /\ nextInterval = 1
  /\ home = "unmounted"
  /\ lastUpdate = [by |-> "none", from |-> 0, to |-> 0, n |-> 0]

Init == Unmounted /\ NoPosts /\ NoCli /\ NoHome

(* ------------------------------ actions ------------------------------- *)
\* React commits the component: the ref is attached before effects run
Commit ==
  /\ phase = "unmounted"
  /\ preRef' = "pre"
  /\ phase' = "committed"
  /\ UNCHANGED <<innerText, time, blobs, buffer, animationId, rafCallbacks,
                 nextHandle, pc, cur, stopTime, writes, lastWrite, bufStamp>>
  /\ UNCHANGED <<blogVars, cliVars, homeVars>>

\* faulty variant: the effect schedules nothing
FirstTick_Missing(q, h, r) == q

\* const animationId = requestAnimationFrame(renderFrame): the effect's first tick
FirstTick(q, h, r) == RequestAnimationFrame(q, h, r)

\* start(): the effect body, on mount and on every re-run of the effect
Start ==
  /\ phase \in {"committed", "refreshing"}
  /\ pc = "idle"
  /\ Len(time) < MaxRuns
  /\ \E seed \in 1 .. MaxSeed :
       /\ time' = Append(time, 0)
       /\ blobs' = Append(blobs, NewBlobs(seed))
       /\ buffer' = Append(buffer, NewArray)
       /\ bufStamp' = Append(bufStamp, [y \in 0 .. (height - 1) |-> Never])
  /\ animationId' = Append(animationId, nextHandle)
  /\ rafCallbacks' = FirstTick(rafCallbacks, nextHandle, Len(time) + 1)
  /\ nextHandle' = nextHandle + 1
  /\ stopTime' = Append(stopTime, NotStopped)
  /\ writes' = Append(writes, 0)
  /\ phase' = "mounted"
  /\ UNCHANGED <<preRef, innerText, pc, cur, lastWrite>>
  /\ UNCHANGED <<blogVars, cliVars, homeVars>>

\* faulty variant: the cleanup cancels another handle
CancelToken_Wrong(r) == animationId[r] + 1

\* the handle stop() passes to cancelAnimationFrame: the closure's animationId
CancelToken(r) == animationId[r]

\* stop(): the effect's cleanup, before a re-run of the effect (the ref stays
\* attached) or after the unmount commit (the ref is already null)
Stop ==
  /\ pc = "idle"
  /\ \/ phase = "mounted" /\ Len(time) < MaxRuns /\ phase' = "refreshing"
     \/ phase = "detached" /\ phase' = "dead"
  /\ rafCallbacks' = CancelAnimationFrame(rafCallbacks, CancelToken(Len(time)))
  /\ stopTime' = [stopTime EXCEPT ![Len(time)] = time[Len(time)]]
  /\ UNCHANGED <<preRef, innerText, time, blobs, buffer, animationId,
                 nextHandle, pc, cur, writes, lastWrite, bufStamp>>
  /\ UNCHANGED <<blogVars, cliVars, homeVars>>

\* React's unmount commit detaches the ref; the cleanup runs afterwards
Detach ==
  /\ phase = "mounted"
  /\ pc = "idle"
  /\ preRef' = "null"
  /\ phase' = "detached"
  /\ UNCHANGED <<innerText, time, blobs, buffer, animationId, rafCallbacks,
                 nextHandle, pc, cur, stopTime, writes, lastWrite, bufStamp>>
  /\ UNCHANGED <<blogVars, cliVars, homeVars>>

\* faulty variant: the successor is requested first
After_ScheduleFirst(p) ==
  CASE p = "idle" -> "schedule"
    [] p = "schedule" -> "update"
    [] p = "update" -> "grid"
    [] p = "grid" -> "write"
    [] p = "write" -> "idle"

\* the order of the statements of renderFrame
After(p) ==
  CASE p = "idle" -> "update"
    [] p = "update" -> "grid"
    [] p = "grid" -> "write"
    [] p = "write" -> "schedule"
    [] p = "schedule" -> "idle"

\* the run executing after a step that leaves renderFrame at position p
Executing(p, r) == IF p = "idle" THEN 0 ELSE r

\* faulty variant: `time = 0.005`
Advance_Assign(t) == TimeStep

\* time += 0.005
Advance(t) == t + TimeStep

\* the host runs the pending callback of run r: renderFrame starts with
\* time += 0.005
FireRun(r) ==
  /\ pc = "idle"
  /\ phase # "refreshing"
  /\ r \in Runs
  /\ time[r] < MaxTicks * TimeStep
  /\ \E c \in PendingOf(r) : rafCallbacks' = rafCallbacks \ {c}
  /\ time' = [time EXCEPT ![r] = Advance(@)]
  /\ pc' = After(pc)
  /\ cur' = Executing(pc', r)
  /\ UNCHANGED <<preRef, innerText, blobs, buffer, animationId, nextHandle,
                 phase, stopTime, writes, lastWrite, bufStamp>>
  /\ UNCHANGED <<blogVars, cliVars, homeVars>>

Fire == \E r \in 1 .. MaxRuns : FireRun(r)

\* blobs.forEach(...)
UpdateBlobs ==
  /\ pc = "update"
  /\ blobs' = [blobs EXCEPT ![cur] = [i \in 1 .. Len(@) |-> MoveBlob(@[i], time[cur])]]
  /\ pc' = After(pc)
  /\ cur' = Executing(pc', cur)
  /\ UNCHANGED <<preRef, innerText, time, buffer, animationId, rafCallbacks,
                 nextHandle, phase, stopTime, writes, lastWrite, bufStamp>>
  /\ UNCHANGED <<blogVars, cliVars, homeVars>>

\* the field pass over the whole grid
EvalGrid ==
  /\ pc = "grid"
  /\ buffer' = [buffer EXCEPT ![cur] = FillBuffer(@, blobs[cur])]
  /\ bufStamp' = [bufStamp EXCEPT ![cur] = FillStamp(@, time[cur])]
  /\ pc' = After(pc)
  /\ cur' = Executing(pc', cur)
  /\ UNCHANGED <<preRef, innerText, time, blobs, animationId, rafCallbacks,
                 nextHandle, phase, stopTime, writes, lastWrite>>
  /\ UNCHANGED <<blogVars, cliVars, homeVars>>

\* if (preRef.current) { ...; preRef.current.innerText = output }
WriteFrame ==
  /\ pc = "write"
  /\ IF preRef # "null"
     THEN /\ innerText' = Pack(Output(buffer[cur]))
          /\ writes' = [writes EXCEPT ![cur] = @ + 1]
          /\ lastWrite' = [run |-> cur, time |-> time[cur],
                           stopped |-> stopTime[cur] # NotStopped,
                           latest |-> Len(time),
                           stamps |-> {bufStamp[cur][y] : y \in 0 .. (height - 1)}]
     ELSE UNCHANGED <<innerText, writes, lastWrite>>
  /\ pc' = After(pc)
  /\ cur' = Executing(pc', cur)
  /\ UNCHANGED <<preRef, time, blobs, buffer, animationId, rafCallbacks,
                 nextHandle, phase, stopTime, bufStamp>>
  /\ UNCHANGED <<blogVars, cliVars, homeVars>>

\* faulty variant: the successor is requested inside `if (preRef.current)`
Reschedule_IfAttached(q, h, r) ==
  IF preRef = "null" THEN q ELSE RequestAnimationFrame(q, h, r)

\* the last statement of renderFrame: requestAnimationFrame(renderFrame),
\* whatever the write did
Reschedule(q, h, r) == RequestAnimationFrame(q, h, r)

\* the returned handle is dropped
ScheduleNext ==
  /\ pc = "schedule"
  /\ rafCallbacks' = Reschedule(rafCallbacks, nextHandle, cur)
  /\ nextHandle' = nextHandle + 1
  /\ pc' = After(pc)
  /\ cur' = Executing(pc', cur)
  /\ UNCHANGED <<preRef, innerText, time, blobs, buffer, animationId,
                 phase, stopTime, writes, lastWrite, bufStamp>>
  /\ UNCHANGED <<blogVars, cliVars, homeVars>>

Next ==
  \/ Commit
  \/ Start
  \/ Stop
  \/ Detach
  \/ Fire
  \/ UpdateBlobs
  \/ EvalGrid
  \/ WriteFrame
  \/ ScheduleNext

Spec == Init /\ [][Next]_vars

\* a renderFrame call in progress leaves position p (statements do not block)
Proceed(p) == pc = p /\ pc' = After(p)

\* the host presents frames forever and runs every pending callback; a
\* renderFrame call in progress runs to completion
Fairness ==
  /\ \A r \in 1 .. MaxRuns : WF_vars(FireRun(r))
  /\ \A p \in {"update", "grid", "write", "schedule"} : WF_pc(Proceed(p))

FairSpec == Spec /\ Fairness

(* ------------------- a run observed late in its life ------------------ *)
\* numbers of the tick in progress, up to 80000 ticks after start()
LateTicks == {2, 3, 315, 629, 1257, 20000, 52360, 80000}

\* The mounted animator inside its n-th tick, n in LateTicks, just after
\* time += 0.005: the blobs, the buffer and the render target are those the
\* previous tick left, for the k-th sampled set of Math.random() draws.
LateInit ==
  \E n \in LateTicks : \E k \in 0 .. MaxSample :
    LET t0 == (n - 1) * TimeStep
        bs == [i \in 1 .. numBlobs |-> MoveBlob(SampleBlob(k + i - 1), t0)]
        buf == FillBuffer(NewArray, bs)
    IN /\ preRef = "pre"
       /\ phase = "mounted"
       /\ time = <<n * TimeStep>>
       /\ blobs = <<bs>>
       /\ buffer = <<buf>>
       /\ bufStamp = <<[y \in 0 .. (height - 1) |-> t0]>>
       /\ innerText = Pack(Output(buf))
       /\ animationId = <<1>>
       /\ rafCallbacks = {}
       /\ nextHandle = n + 1
       /\ pc = "update"
       /\ cur = 1
       /\ stopTime = <<NotStopped>>
       /\ writes = <<n - 1>>
       /\ lastWrite = [run |-> 1, time |-> t0, stopped |-> FALSE, latest |-> 1,
                       stamps |-> {t0}]
       /\ NoPosts
       /\ NoCli
       /\ NoHome

\* the rest of the tick in progress
LateNext ==
  \/ UpdateBlobs
  \/ EvalGrid
  \/ WriteFrame
  \/ ScheduleNext

LateSpec == LateInit /\ [][LateNext]_vars

(* ----------------------- two runs side by side ------------------------ *)
\* the draws of blob i of the second run, given those of the first (set k):
\* the same draws (v = 0); the same speed and offset but other kx, ky and
\* radius (v = 1); the same first blob among other blobs (v = 2)
Redraw(v, k, i) ==
  CASE v = 0 -> SampleBlob(k + i - 1)
    [] v = 1 -> [SampleBlob(k + i - 1) EXCEPT
                   !.kx = 0 - @, !.ky = 0 - @, !.radius = 179 - @]
    [] v = 2 -> IF i = 1 THEN SampleBlob(k) ELSE SampleBlob(k + i + numBlobs)

\* The mounted animator after start(), one tick, a re-run of the effect
\* (stop(), start()): the first closure has written its first frame and its
\* second tick is pending (its handle is not the one stop() cancelled); the
\* second closure is new.
PairInit ==
  \E k \in 0 .. (MaxPairs - 1) : \E v \in 0 .. 2 :
    LET bs1 == [i \in 1 .. numBlobs |-> MoveBlob(SampleBlob(k + i - 1), TimeStep)]
        bs2 == [i \in 1 .. numBlobs |-> Redraw(v, k, i)]
        buf == FillBuffer(NewArray, bs1)
    IN /\ preRef = "pre"
       /\ phase = "mounted"
       /\ time = <<TimeStep, 0>>
       /\ blobs = <<bs1, bs2>>
       /\ buffer = <<buf, NewArray>>
       /\ bufStamp = <<[y \in 0 .. (height - 1) |-> TimeStep],
                       [y \in 0 .. (height - 1) |-> Never]>>
       /\ innerText = Pack(Output(buf))
       /\ animationId = <<1, 3>>
       /\ rafCallbacks = {[id |-> 2, run |-> 1], [id |-> 3, run |-> 2]}
       /\ nextHandle = 4
       /\ pc = "idle"
       /\ cur = 0
       /\ stopTime = <<TimeStep, NotStopped>>
       /\ writes = <<1, 0>>
       /\ lastWrite = [run |-> 1, time |-> TimeStep, stopped |-> FALSE, latest |-> 1,
                       stamps |-> {TimeStep}]
       /\ NoPosts
       /\ NoCli
       /\ NoHome

\* the ticks of both closures, in any order
PairNext ==
  \/ Fire
  \/ UpdateBlobs
  \/ EvalGrid
  \/ WriteFrame
  \/ ScheduleNext

PairSpec == PairInit /\ [][PairNext]_vars

(* --------------------------- src/lib/blog.ts -------------------------- *)
\* Strings that are taken apart (file names, slugs) are sequences of
\* characters.  A frontmatter value is "undefined" (the key is absent),
\* "true" or "false" (a YAML boolean) or another string.  A date is a record:
\* kind "undefined", "invalid" (a value new Date() cannot read) or "date" with
\* `at`, the instant in hours since 1970-01-01T00:00Z.  A post's date, the
\* string 'yyyy-mm-dd', is the number of its day.
Md == <<".", "m", "d">>

\* name.endsWith(suffix)
EndsWith(name, suffix) ==
  /\ Len(name) >= Len(suffix)
  /\ SubSeq(name, Len(name) - Len(suffix) + 1, Len(name)) = suffix

\* fileName.replace(/\.md$/, '')
StripMd(name) ==
  IF EndsWith(name, Md) THEN SubSeq(name, 1, Len(name) - Len(Md)) ELSE name

\* the values JavaScript takes for false in `v || d` and `!v`
Falsy(v) == v \in {"undefined", "false", ""}

\* v || d
OrElse(v, d) == IF Falsy(v) THEN d ELSE v

\* new Date(d).toISOString().split('T')[0]: the UTC day of the instant
IsoDate(d) == d.at \div 24

\* new Date(date).getTime() of a 'yyyy-mm-dd' string: its midnight, in hours
GetTime(day) == day * 24

\* content.trim().split(/\s+/).length for a text of n words: splitting the
\* empty string gives [''], one element
SplitLength(n) == IF n = 0 THEN 1 ELSE n

\* the words of a whole file: its frontmatter block, delimiters included, and
\* its body
FileWords(f) == f.front + f.body

\* estimateReadTime(content), for a text of `words` words
estimateReadTime(words) ==
  ToString((SplitLength(words) + wordsPerMinute - 1) \div wordsPerMinute) \o " min read"

\* fs.readFileSync, matter() or toISOString() throws for this file
Throws(f) == ~f.readable \/ f.data.date.kind = "invalid"

\* the object the map callback of getAllPosts returns for file f
PostMeta(f) ==
  [ slug        |-> StripMd(f.fileName),
    title       |-> OrElse(f.data.title, "Untitled"),
    date        |-> IF f.data.date.kind = "undefined"
                    THEN DefaultDate ELSE IsoDate(f.data.date),
    description |-> OrElse(f.data.description, ""),
    tags        |-> IF f.data.tags.isArray THEN f.data.tags.items ELSE <<>>,
    author      |-> OrElse(f.data.author, "Anonymous"),
    readTime    |-> OrElse(f.data.readTime, estimateReadTime(FileWords(f))),
    featured    |-> OrElse(f.data.featured, "false"),
    draft       |-> OrElse(f.data.draft, "false") ]

\* faulty variant: oldest first
Compare_OldestFirst(a, b) == GetTime(a.date) - GetTime(b.date)

\* the comparator (a, b) => new Date(b.date).getTime() - new Date(a.date).getTime()
Compare(a, b) == GetTime(b.date) - GetTime(a.date)

RECURSIVE InsertPost(_, _, _)
\* p put into the sorted list before the first element, from position i on,
\* that the comparator orders after it
InsertPost(sorted, p, i) ==
  IF i > Len(sorted) THEN Append(sorted, p)
  ELSE IF Compare(sorted[i], p) > 0
       THEN SubSeq(sorted, 1, i - 1) \o <<p>> \o SubSeq(sorted, i, Len(sorted))
       ELSE InsertPost(sorted, p, i + 1)

RECURSIVE SortPosts(_, _)
\* Array.prototype.sort (stable) of the first n elements of ps
SortPosts(ps, n) ==
  IF n = 0 THEN <<>> ELSE InsertPost(SortPosts(ps, n - 1), ps[n], 1)

\* the file names that pass .filter(fileName => fileName.endsWith('.md'))
MdFiles(dir) == SelectSeq(dir, LAMBDA f : EndsWith(f.fileName, Md))

\* faulty variant: a file that fails is skipped, the others are listed
getAllPosts_SkipFailed(dir) ==
  LET md == SelectSeq(MdFiles(dir), LAMBDA f : ~Throws(f))
      all == [i \in 1 .. Len(md) |-> PostMeta(md[i])]
      shown == SelectSeq(all, LAMBDA meta : Falsy(meta.draft))
  IN SortPosts(shown, Len(shown))

\* getAllPosts() on the directory listing dir: [] when anything throws
getAllPosts(dir) ==
  LET md == MdFiles(dir)
      all == [i \in 1 .. Len(md) |-> PostMeta(md[i])]
      shown == SelectSeq(all, LAMBDA meta : Falsy(meta.draft))
  IN IF \E i \in 1 .. Len(md) : Throws(md[i])
     THEN <<>>
     ELSE SortPosts(shown, Len(shown))

\* a call of getAllPosts()
CallGetAllPosts ==
  /\ allPostsData' = getAllPosts(postsDirectory)
  /\ called' = TRUE
  /\ UNCHANGED <<postsDirectory, params, post, page, staticParams, fluidVars, cliVars, homeVars>>

\* file names and file contents explored
FileNames == {<<"a">> \o Md, <<"b">> \o Md, <<"c">> \o Md, <<"n">> \o Md \o <<"x">>}
Dates == {[kind |-> "undefined", at |-> 0],
          [kind |-> "date", at |-> DefaultDate * 24 - 1],
          [kind |-> "date", at |-> (DefaultDate + 60) * 24 + 9]}
Frontmatter(date, draft) ==
  [ title |-> "undefined", date |-> date, description |-> "undefined",
    tags |-> [isArray |-> FALSE, items |-> <<>>], author |-> "undefined",
    readTime |-> "undefined", featured |-> "undefined", draft |-> draft ]
Contents ==
  {[readable |-> TRUE, front |-> 10, body |-> 240, data |-> Frontmatter(d, dr)] :
      d \in Dates, dr \in {"undefined", "true", "false"}}
  \cup {[readable |-> TRUE, front |-> 10, body |-> 240,
         data |-> Frontmatter([kind |-> "invalid", at |-> 0], "false")],
        [readable |-> FALSE, front |-> 0, body |-> 0,
         data |-> Frontmatter([kind |-> "undefined", at |-> 0], "undefined")]}
\* a file: its name, whether readFileSync and matter() succeed on it, the
\* words of its frontmatter block and of its body, and its parsed frontmatter
File(name, c) ==
  [fileName |-> name, readable |-> c.readable, front |-> c.front,
   body |-> c.body, data |-> c.data]

\* the orders in which a directory of n files with different names is listed
Listings(n) ==
  {ns \in [1 .. n -> FileNames] : \A i, j \in 1 .. n : i # j => ns[i] # ns[j]}

\* the build reads a posts directory of at most MaxFiles files; the page is
\* not mounted
BlogInit ==
  /\ Unmounted
  /\ NoCli
  /\ NoHome
  /\ \E n \in 0 .. MaxFiles : \E names \in Listings(n) : \E cs \in [1 .. n -> Contents] :
       postsDirectory = [i \in 1 .. n |-> File(names[i], cs[i])]
  /\ allPostsData = <<>>
  /\ called = FALSE
  /\ params = <<>>
  /\ post = <<>>
  /\ page = "none"
  /\ staticParams = <<>>

BlogNext == CallGetAllPosts

BlogSpec == BlogInit /\ [][BlogNext]_vars

(* ----------------------------- post page ------------------------------ *)
\* faulty variant: the slug taken for the file name
FullPath_NoExtension(s) == s

\* path.join(postsDirectory, `${slug}.md`): the name of the file looked up
FullPath(s) == s \o Md

\* fs.existsSync(fullPath): the directory lists a file of that name
ExistsSync(dir, name) == \E i \in DOMAIN dir : dir[i].fileName = name

\* the file of that name
FileAt(dir, name) == dir[CHOOSE i \in DOMAIN dir : dir[i].fileName = name]

\* the object getPostBySlug builds from file f: the body matter() splits off
\* is its content and the text its reading time is estimated from
PostOf(s, f) ==
  [ slug        |-> s,
    title       |-> OrElse(f.data.title, "Untitled"),
    date        |-> IF f.data.date.kind = "undefined"
                    THEN DefaultDate ELSE IsoDate(f.data.date),
    description |-> OrElse(f.data.description, ""),
    tags        |-> IF f.data.tags.isArray THEN f.data.tags.items ELSE <<>>,
    author      |-> OrElse(f.data.author, "Anonymous"),
    readTime    |-> OrElse(f.data.readTime, estimateReadTime(f.body)),
    content     |-> f.body,
    featured    |-> OrElse(f.data.featured, "false"),
    draft       |-> OrElse(f.data.draft, "false") ]

\* getPostBySlug(slug): null (<<>>) when the file is missing or anything throws
getPostBySlug(dir, s) ==
  IF ~ExistsSync(dir, FullPath(s)) THEN <<>>
  ELSE IF Throws(FileAt(dir, FullPath(s))) THEN <<>>
  ELSE <<PostOf(s, FileAt(dir, FullPath(s)))>>

\* getAllPostSlugs(): the names of the .md files without their extension
getAllPostSlugs(dir) ==
  [i \in 1 .. Len(MdFiles(dir)) |-> StripMd(MdFiles(dir)[i].fileName)]

\* the page component BlogPost({ params }): notFound() when there is no post
BlogPost(s) ==
  /\ params' = s
  /\ post' = getPostBySlug(postsDirectory, s)
  /\ page' = IF post' = <<>> THEN "notFound" ELSE "article"
  /\ UNCHANGED <<postsDirectory, allPostsData, called, staticParams, fluidVars, cliVars, homeVars>>

\* generateStaticParams(): one { slug } per slug of getAllPostSlugs()
generateStaticParams ==
  /\ staticParams' = [i \in 1 .. Len(getAllPostSlugs(postsDirectory)) |->
                        [slug |-> getAllPostSlugs(postsDirectory)[i]]]
  /\ UNCHANGED <<postsDirectory, allPostsData, called, params, post, page, fluidVars, cliVars, homeVars>>

\* the slugs requested
Slugs == {<<"a">>, <<"b">>, <<"n">>, <<"a">> \o Md}

\* the files of the directories the post pages are built from: posts with and
\* without a draft flag and a readTime, with an empty body, without any
\* frontmatter, unreadable, and with a date that is none
PageNames == {<<"a">> \o Md, <<"b">> \o Md, <<"n">> \o Md \o <<"x">>}
NoDate == [kind |-> "undefined", at |-> 0]
PageContents ==
  {[readable |-> TRUE, front |-> 12, body |-> 195, data |-> Frontmatter(NoDate, dr)] :
      dr \in {"undefined", "true"}}
  \cup {[readable |-> TRUE, front |-> 14, body |-> 100,
          data |-> [Frontmatter(NoDate, dr) EXCEPT !.readTime = "5 min read"]] :
      dr \in {"false", "true"}}
  \cup {[readable |-> TRUE, front |-> 12, body |-> 0,
         data |-> Frontmatter([kind |-> "date", at |-> DefaultDate * 24 + 30], "undefined")],
        [readable |-> TRUE, front |-> 0, body |-> 250, data |-> Frontmatter(NoDate, "undefined")],
        [readable |-> TRUE, front |-> 12, body |-> 240,
         data |-> Frontmatter([kind |-> "invalid", at |-> 0], "undefined")],
        [readable |-> FALSE, front |-> 0, body |-> 0, data |-> Frontmatter(NoDate, "undefined")]}

\* the directory the site is built from holds at most MaxPosts files
PageInit ==
  /\ Unmounted
  /\ NoCli
  /\ NoHome
  /\ \E n \in 0 .. MaxPosts : \E ns \in [1 .. n -> PageNames] : \E cs \in [1 .. n -> PageContents] :
       /\ \A i, j \in 1 .. n : i # j => ns[i] # ns[j]
       /\ postsDirectory = [i \in 1 .. n |-> File(ns[i], cs[i])]
  /\ allPostsData = <<>>
  /\ called = FALSE
  /\ params = <<>>
  /\ post = <<>>
  /\ page = "none"
  /\ staticParams = <<>>

PageNext ==
  \/ CallGetAllPosts
  \/ \E s \in Slugs : BlogPost(s)
  \/ generateStaticParams

PageSpec == PageInit /\ [][PageNext]_vars

(* ---------------------- scripts/migrate-blog.js ----------------------- *)
\* Titles, slugs and file names are sequences of characters; a path is the
\* sequence of its segments below the root.
UpperCase == <<"A", "B", "C", "D", "E", "F", "G", "H", "I", "J", "K", "L", "M",
               "N", "O", "P", "Q", "R", "S", "T", "U", "V", "W", "X", "Y", "Z">>
LowerCase == <<"a", "b", "c", "d", "e", "f", "g", "h", "i", "j", "k", "l", "m",
               "n", "o", "p", "q", "r", "s", "t", "u", "v", "w", "x", "y", "z">>
Digits == {"0", "1", "2", "3", "4", "5", "6", "7", "8", "9"}
\* the characters \s matches, of those explored
WhiteSpace == {" ", "\t", "\n"}
Hyphen == "-"

\* title.toLowerCase()
ToLowerCase(str) ==
  [i \in 1 .. Len(str) |->
     IF \E k \in DOMAIN UpperCase : UpperCase[k] = str[i]
     THEN LowerCase[CHOOSE k \in DOMAIN UpperCase : UpperCase[k] = str[i]]
     ELSE str[i]]

\* .replace(/[^a-z0-9\s-]/g, '')
RemoveOthers(str) ==
  SelectSeq(str, LAMBDA c : \/ \E k \in DOMAIN LowerCase : LowerCase[k] = c
                            \/ c \in Digits \cup WhiteSpace \cup {Hyphen})

\* the positions of str that do not continue a run of characters of set cs
RunStarts(str, cs) ==
  SelectSeq([i \in 1 .. Len(str) |-> i],
            LAMBDA i : str[i] \notin cs \/ i = 1 \/ str[i - 1] \notin cs)

\* .replace(/\s+/g, '-'): every run of white space becomes one hyphen
SpacesToHyphen(str) ==
  [k \in 1 .. Len(RunStarts(str, WhiteSpace)) |->
     IF str[RunStarts(str, WhiteSpace)[k]] \in WhiteSpace
     THEN Hyphen ELSE str[RunStarts(str, WhiteSpace)[k]]]

\* .replace(/-+/g, '-'): every run of hyphens becomes one hyphen
SqueezeHyphens(str) ==
  [k \in 1 .. Len(RunStarts(str, {Hyphen})) |-> str[RunStarts(str, {Hyphen})[k]]]

\* String.prototype.trim takes no argument: .trim('-') removes the white space
\* at both ends and nothing else
Trim(str) ==
  LET inner == {i \in 1 .. Len(str) : str[i] \notin WhiteSpace}
  IN IF inner = {} THEN <<>>
     ELSE SubSeq(str, CHOOSE i \in inner : \A j \in inner : i <= j,
                      CHOOSE i \in inner : \A j \in inner : i >= j)

\* generateSlug(title)
generateSlug(t) ==
  Trim(SqueezeHyphens(SpacesToHyphen(RemoveOthers(ToLowerCase(t)))))

RECURSIVE SplitFrom(_, _, _)
\* the segments of str from position i on, seg being the segment begun
SplitFrom(str, i, seg) ==
  IF i > Len(str) THEN <<seg>>
  ELSE IF str[i] = "/" THEN <<seg>> \o SplitFrom(str, i + 1, <<>>)
  ELSE SplitFrom(str, i + 1, Append(seg, str[i]))

RECURSIVE Normalize(_, _, _)
\* path.normalize: empty and '.' segments dropped, '..' removes the segment
\* before it (the root has none above it)
Normalize(segs, i, done) ==
  IF i > Len(segs) THEN done
  ELSE IF segs[i] \in {<<>>, <<".">>} THEN Normalize(segs, i + 1, done)
  ELSE IF segs[i] = <<".", ".">>
       THEN Normalize(segs, i + 1, SubSeq(done, 1, Len(done) - 1))
  ELSE Normalize(segs, i + 1, Append(done, segs[i]))

\* path.join(dir, name) for an absolute directory dir
PathJoin(dir, name) == Normalize(dir \o SplitFrom(name, 1, <<>>), 1, <<>>)

\* path.join(process.cwd(), 'src', 'posts')
Cwd == <<<<"c", "w", "d">>>>
outputDir == Cwd \o <<<<"s", "r", "c">>, <<"p", "o", "s", "t", "s">>>>

\* the directories on disk: the output directory (both modes create it when
\* it is missing), those above it, and one directory inside it
Directories ==
  {SubSeq(outputDir, 1, k) : k \in 0 .. Len(outputDir)} \cup {Append(outputDir, <<"d">>)}

\* fs.existsSync(path)
ExistsOnDisk(path) == path \in Directories \/ \E f \in disk : f.path = path

\* fs.writeFileSync(path, ...) succeeds: the path names no directory and the
\* directory it lies in exists
CanWrite(path) ==
  /\ Len(path) > 0
  /\ path \notin Directories
  /\ SubSeq(path, 1, Len(path) - 1) \in Directories

\* the disk after fs.writeFileSync(path, ...) of write number n
WriteFileSync(path, n) ==
  {f \in disk : f.path # path} \cup {[path |-> path, content |-> n]}

\* frontmatter.title || await question('Enter post title: ')
TitleOf(fmTitle, typed) == IF fmTitle = <<>> THEN typed ELSE fmTitle

\* frontmatter.slug || generateSlug(title)
SlugOf(fmSlug, t) == IF fmSlug = <<>> THEN generateSlug(t) ELSE fmSlug

\* overwrite.toLowerCase() === 'y'
Confirms(answer) == ToLowerCase(answer) = <<"y">>

\* what the user types, and what the frontmatter of a migrated file holds
\* (<<>>: the key is absent, or the user just presses enter)
TitleInputs == {<<"a">>, <<"A", " ", "b">>, <<" ", "a", " ">>, <<"a", "/", "b">>,
                <<".", ".", "/", "a">>, <<>>}
FrontTitles == {<<>>, <<"A", " ", "b">>}
FrontSlugs == {<<>>, <<"a">>, <<".", ".", "/", "a">>, <<"d", "/", "a">>,
               <<"x", "/", "a">>, <<".", ".", "/", ".", ".", "/", "a">>}
Answers == {<<"y">>, <<"Y">>, <<"n">>, <<>>}

\* migrateFile(inputPath, outputDir) on a file that can be read
Migrate(fmTitle, typed, fmSlug, answer) ==
  LET path == PathJoin(outputDir, SlugOf(fmSlug, TitleOf(fmTitle, typed)) \o Md)
      exists == ExistsOnDisk(path)
      writes_ == (~exists \/ Confirms(answer)) /\ CanWrite(path)
  IN /\ title' = TitleOf(fmTitle, typed)
     /\ slug' = SlugOf(fmSlug, TitleOf(fmTitle, typed))
     /\ outputPath' = path
     /\ disk' = IF writes_ THEN WriteFileSync(path, lastOp.n + 1) ELSE disk
     /\ lastOp' = [mode |-> "migrate", n |-> lastOp.n + 1, existed |-> exists,
                   answer |-> IF exists THEN answer ELSE <<>>, written |-> writes_]

\* migrateFile: fs.readFileSync throws, the catch block reports the error
MigrateFails ==
  /\ lastOp' = [mode |-> "migrate", n |-> lastOp.n + 1, existed |-> FALSE,
                answer |-> <<>>, written |-> FALSE]
  /\ UNCHANGED <<title, slug, outputPath, disk>>

\* one call of migrateFile, for a single file or for a file of the directory
\* that is migrated
migrateFile ==
  /\ lastOp.n < MaxOps
  /\ \/ MigrateFails
     \/ \E fmTitle \in FrontTitles : \E typed \in TitleInputs :
          \E fmSlug \in FrontSlugs : \E answer \in Answers :
            Migrate(fmTitle, typed, fmSlug, answer)
  /\ UNCHANGED <<fluidVars, blogVars, homeVars>>

\* createNewPost(): the --new mode
createNewPost ==
  /\ lastOp.n < MaxOps
  /\ \E typed \in TitleInputs :
       LET path == PathJoin(outputDir, generateSlug(typed) \o Md)
       IN /\ title' = typed
          /\ slug' = generateSlug(typed)
          /\ outputPath' = path
          /\ disk' = IF CanWrite(path) THEN WriteFileSync(path, lastOp.n + 1) ELSE disk
          /\ lastOp' = [mode |-> "new", n |-> lastOp.n + 1, existed |-> ExistsOnDisk(path),
                        answer |-> <<>>, written |-> CanWrite(path)]
  /\ UNCHANGED <<fluidVars, blogVars, homeVars>>

\* the CLI is run on a posts directory that is empty or holds the post 'a'
CliInit ==
  /\ Unmounted
  /\ NoPosts
  /\ NoHome
  /\ title = <<>>
  /\ slug = <<>>
  /\ outputPath = <<>>
  /\ disk \in {{}, {[path |-> Append(outputDir, <<"a">> \o Md), content |-> 0]}}
  /\ lastOp = [mode |-> "none", n |-> 0, existed |-> FALSE, answer |-> <<>>, written |-> FALSE]

CliNext == migrateFile \/ createNewPost

CliSpec == CliInit /\ [][CliNext]_vars

\* the characters of the titles explored, and the titles of at most MaxLen
\* characters
TitleChars == {"a", "B", "7", " ", "-", "!", "/", "."}
Titles == UNION {[1 .. n -> TitleChars] : n \in 0 .. MaxLen}

\* a call of generateSlug(title)
CallGenerateSlug ==
  /\ lastOp.mode = "none"
  /\ slug' = generateSlug(title)
  /\ lastOp' = [lastOp EXCEPT !.mode = "generateSlug", !.n = 1]
  /\ UNCHANGED <<title, outputPath, disk, fluidVars, blogVars, homeVars>>

SlugInit ==
  /\ Unmounted
  /\ NoPosts
  /\ NoHome
  /\ title \in Titles
  /\ slug = <<>>
  /\ outputPath = <<>>
  /\ disk = {}
  /\ lastOp = [mode |-> "none", n |-> 0, existed |-> FALSE, answer |-> <<>>, written |-> FALSE]

SlugNext == CallGenerateSlug

SlugSpec == SlugInit /\ [][SlugNext]_vars

(* -------------------------- src/app/page.tsx -------------------------- *)
titles == <<"COMPUTER ENGINEER", "DESIGNER", "BUILDER", "WRITER">>

\* (currentTitleIndex + 1) % titles.length
NextTitle(i) == (i + 1) % Len(titles)

\* document.getElementById("rotating-title") finds the element: Home is in
\* the document
HasTitleElement == home \in {"committed", "mounted", "refreshing"}

\* updateTitle(), called by the effect ("mount") or by the interval ("timer")
updateTitle(by) ==
  /\ currentTitleIndex' = NextTitle(currentTitleIndex)
  /\ textContent' = IF HasTitleElement THEN titles[NextTitle(currentTitleIndex) + 1]
                    ELSE textContent
  /\ lastUpdate' = [by |-> by, from |-> currentTitleIndex,
                    to |-> NextTitle(currentTitleIndex), n |-> lastUpdate.n + 1]

\* React commits Home: the h1 is in the document with the text of the JSX
HomeCommit ==
  /\ home = "unmounted"
  /\ Len(intervalId) < MaxEffects
  /\ home' = "committed"
  /\ textContent' = titles[1]
  /\ UNCHANGED <<currentTitleIndex, intervalId, intervals, nextInterval, lastUpdate>>
  /\ UNCHANGED <<fluidVars, blogVars, cliVars>>

\* the effect body, on mount and on a re-run of the effect:
\* updateTitle(); const intervalId = setInterval(updateTitle, 1000)
HomeEffect ==
  /\ home \in {"committed", "refreshing"}
  /\ updateTitle("mount")
  /\ intervalId' = Append(intervalId, nextInterval)
  /\ intervals' = intervals \cup {nextInterval}
  /\ nextInterval' = nextInterval + 1
  /\ home' = "mounted"
  /\ UNCHANGED <<fluidVars, blogVars, cliVars>>

\* faulty variant: the handle of the first effect run is cleared
ClearToken_First(e) == intervalId[1]

\* the handle the cleanup of effect run e passes to clearInterval
ClearToken(e) == intervalId[e]

\* the effect's cleanup, () => clearInterval(intervalId): before a re-run of
\* the effect, or after the unmount commit
HomeCleanup ==
  /\ \/ home = "mounted" /\ Len(intervalId) < MaxEffects /\ home' = "refreshing"
     \/ home = "detached" /\ home' = "unmounted"
  /\ intervals' = intervals \ {ClearToken(Len(intervalId))}
  /\ UNCHANGED <<currentTitleIndex, textContent, intervalId, nextInterval, lastUpdate>>
  /\ UNCHANGED <<fluidVars, blogVars, cliVars>>

\* React's unmount commit removes the h1; the cleanup runs afterwards
HomeDetach ==
  /\ home = "mounted"
  /\ home' = "detached"
  /\ textContent' = "none"
  /\ UNCHANGED <<currentTitleIndex, intervalId, intervals, nextInterval, lastUpdate>>
  /\ UNCHANGED <<fluidVars, blogVars, cliVars>>

\* the host fires an active interval: updateTitle()
IntervalFire ==
  /\ lastUpdate.n < MaxUpdates
  /\ \E id \in intervals : updateTitle("timer")
  /\ UNCHANGED <<intervalId, intervals, nextInterval, home>>
  /\ UNCHANGED <<fluidVars, blogVars, cliVars>>

HomeInit == Unmounted /\ NoPosts /\ NoCli /\ NoHome

HomeNext ==
  \/ HomeCommit
  \/ HomeEffect
  \/ HomeCleanup
  \/ HomeDetach
  \/ IntervalFire

HomeSpec == HomeInit /\ [][HomeNext]_vars

(* ------------------------------ claims -------------------------------- *)
Stopped(r) == stopTime[r] # NotStopped
Ticks(r) == time[r] \div TimeStep
TextDomain == 1 .. TextLen(innerText)
Newlines == {i \in TextDomain : TextAt(innerText, i) = "\n"}
Glyphs == {i \in TextDomain : TextAt(innerText, i) # "\n"}
RampGlyphs == {chars[k] : k \in DOMAIN chars}

\* C1: after stop() of a run has returned, no tick of that run executes:
\* its clock no longer advances and its glyph buffer is no longer written.
C1_NoTickAfterStop ==
  [][\A r \in Runs : Stopped(r) => (time'[r] = time[r] /\ buffer'[r] = buffer[r])]_vars

\* C2: while the animator is Running, every pending tick of the running
\* closure carries the handle its stop() will cancel.
C2_TokenIsPendingTick ==
  Running => \A c \in PendingOf(Len(time)) : c.id = CancelToken(Len(time))

\* C3: no write to the render target is made by a run whose stop() has
\* returned.
C3_NoWriteAfterStop == ~lastWrite.stopped

\* C4: a run stopped before its first tick fired never ticks: its first
\* callback is gone, its clock stays 0 and it never writes the render target.
C4_StopBeforeFirstTick ==
  \A r \in Runs :
    stopTime[r] = 0 =>
      /\ time[r] = 0
      /\ writes[r] = 0
      /\ PendingOf(r) = {}
      /\ cur # r

\* the re-run of the effect stopped run 1 before any tick, and run 2 animates
C4_Witness ==
  /\ Len(time) = 2
  /\ stopTime[1] = 0
  /\ writes[2] > 0

\* C5 as claimed: every written frame holds width*height glyphs and
\* height-1 line separators.
C5_FrameShapeClaimed ==
  lastWrite.run # 0 =>
    /\ Cardinality(Glyphs) = width * height
    /\ Cardinality(Newlines) = height - 1

\* C5 as amended: every written frame holds width*height glyphs of the ramp
\* and height line breaks, one after each row, the last row included.
C5_FrameShape ==
  lastWrite.run # 0 =>
    /\ TextLen(innerText) = width * height + height
    /\ \A i \in TextDomain :
         IF i % (width + 1) = 0
         THEN TextAt(innerText, i) = "\n"
         ELSE TextAt(innerText, i) \in RampGlyphs

\* a frame has been written and some cell of it is not blank
C5_Witness ==
  /\ lastWrite.run # 0
  /\ \E i \in TextDomain : TextAt(innerText, i) \notin {" ", "\n"}

\* the work of the tick of run r at its clock is complete: blobs moved, every
\* cell recomputed, and the frame written when the render target is present
TickWorkDone(r) ==
  /\ \A i \in DOMAIN blobs[r] : blobs[r][i] = MoveBlob(blobs[r][i], time[r])
  /\ \A y \in 0 .. (height - 1) : bufStamp[r][y] = time[r]
  /\ preRef # "null" => (lastWrite.run = r /\ lastWrite.time = time[r])

\* C6: a closure has at most one pending tick, none while its renderFrame is in
\* progress; renderFrame calls never interleave; a successor is scheduled
\* only as the last step of a tick, after the blob update, the grid pass and
\* the write, and each tick schedules exactly one.
C6_OneTickAtATime ==
  /\ [](\A r \in Runs :
          /\ Cardinality(PendingOf(r)) <= 1
          /\ cur = r => PendingOf(r) = {})
  /\ [](cur = 0 <=> pc = "idle")
  /\ [][\A r \in Runs :
          /\ (time'[r] # time[r]) => (pc = "idle" /\ cur' = r)
          /\ (cur = r /\ cur' # r) => Cardinality(PendingOf(r)') = 1
          /\ (time[r] > 0 /\ PendingOf(r)' # PendingOf(r) /\ PendingOf(r)' # {}) =>
               /\ cur = r
               /\ pc' = "idle"
               /\ TickWorkDone(r)
               /\ Cardinality(PendingOf(r)') = 1]_vars

\* two ticks of one run have completed and its third is pending
C6_Witness ==
  \E r \in Runs :
    /\ Ticks(r) >= 2
    /\ pc = "idle"
    /\ Cardinality(PendingOf(r)) = 1
    /\ writes[r] >= 2

\* C7: only the most recently started run writes the render target.
C7_SingleWriter == lastWrite.run # 0 => lastWrite.run = lastWrite.latest

\* C8: while the animator stays Running its next tick always comes, also
\* after a tick that found the render target absent.
C8_TicksKeepComing ==
  \A r \in 1 .. MaxRuns : \A n \in 0 .. (MaxTicks - 1) :
    (Running /\ Len(time) = r /\ time[r] = n * TimeStep)
      ~> (~(Running /\ Len(time) = r) \/ time[r] > n * TimeStep)

\* a Running animator ticked while the ref was detached, skipped the write
\* and has its successor pending
C8_Witness ==
  /\ Running
  /\ preRef = "null"
  /\ pc = "idle"
  /\ writes[Len(time)] < Ticks(Len(time))
  /\ PendingOf(Len(time)) # {}

\* C9: before start() the animator is Stopped, no tick is pending or running
\* and nothing is written; start() leaves the clock at 0 and the render target
\* alone, schedules exactly one tick and makes the animator Running; stop()
\* makes it Stopped.
C9_StartStop ==
  /\ [](Len(time) = 0 =>
          /\ ~Running
          /\ rafCallbacks = {}
          /\ pc = "idle"
          /\ innerText = <<>>
          /\ lastWrite.run = 0)
  /\ [][Len(time') # Len(time) =>
          /\ ~Running
          /\ Running'
          /\ Len(time') = Len(time) + 1
          /\ time'[Len(time')] = 0
          /\ writes'[Len(time')] = 0
          /\ \A r \in Runs : time'[r] = time[r] /\ writes'[r] = writes[r]
          /\ innerText' = innerText
          /\ lastWrite' = lastWrite
          /\ rafCallbacks \subseteq rafCallbacks'
          /\ Cardinality(rafCallbacks' \ rafCallbacks) = 1
          /\ \A c \in rafCallbacks' \ rafCallbacks : c.run = Len(time')]_vars
  /\ [][stopTime' # stopTime /\ Len(time') = Len(time) => (Running /\ ~Running')]_vars

\* the animator was started, ticked, and was stopped
C9_Witness ==
  /\ Len(time) > 0
  /\ ~Running
  /\ writes[Len(time)] > 0

\* C10: a tick writes the render target at most once, and the frame it writes
\* is made of cells all recomputed in that tick.
C10_WriteAfterFullRecompute ==
  /\ [](lastWrite.run # 0 => lastWrite.stamps = {lastWrite.time})
  /\ [](\A r \in Runs : writes[r] <= Ticks(r))
  /\ [][\A r \in Runs :
          writes'[r] # writes[r] =>
            /\ writes'[r] = writes[r] + 1
            /\ cur = r
            /\ pc = "write"
            /\ pc' # "write"
            /\ \A y \in 0 .. (height - 1) : bufStamp[r][y] = time[r]]_vars

\* the second frame of a run has been written
C10_Witness ==
  /\ lastWrite.run # 0
  /\ lastWrite.time = 2 * TimeStep
  /\ writes[lastWrite.run] = 2

\* the blobs of run r are those its latest tick computed
Updated(r) == time[r] > 0 /\ ~(cur = r /\ pc = "update")

\* C11: after every tick every blob lies inside the grid, 0 <= x < width and
\* 0 <= y < height, and its radius is within [6, 12], whatever the clock, the
\* speed and the offset.
C11_BlobsStayInside ==
  \A r \in Runs : Updated(r) =>
    \A i \in DOMAIN blobs[r] :
      /\ 0 <= blobs[r][i].x /\ blobs[r][i].x < width * 10
      /\ 0 <= blobs[r][i].y /\ blobs[r][i].y < height * 10
      /\ 60 <= blobs[r][i].radius /\ blobs[r][i].radius <= 120

\* a late tick has moved a blob into the outer fifth of the grid
C11_Witness ==
  /\ pc = "grid"
  /\ time[1] > 1000 * TimeStep
  /\ \E i \in DOMAIN blobs[1] :
       \/ blobs[1][i].x > (width * 10 * 4) \div 5
       \/ blobs[1][i].x < (width * 10) \div 5

\* the field pass of run r's tick has just assigned every cell of its buffer
Computed(r) == cur = r /\ pc = "write"
\* sumField of cell c (c = x + y * width) in the tick of run r
FieldAt(r, c) == SumField(c % width, c \div width, blobs[r], 1)
\* (val - 0.95) * 0.7 before the two clamps, in thousandths
PreClamp(val) == ((val - 950) * 7) \div 10
\* the cells of every 4th row and every 10th column
Lattice == {x + y * width : x \in {10 * i : i \in 0 .. ((width - 1) \div 10)},
                            y \in {4 * j : j \in 0 .. ((height - 1) \div 4)}}
\* field sum and ramp index of the lattice cells in the tick of run r
Chosen(r) == {<<FieldAt(r, c), CharIdx(FieldAt(r, c))>> : c \in Lattice}

\* C12: within one tick the ramp index is non-decreasing in the field sum:
\* a cell with the larger field sum never gets the smaller index, and the
\* buffer holds the glyph of that index.
C12_MonotoneGlyphs ==
  \A r \in Runs : Computed(r) =>
    /\ \A p, q \in Chosen(r) : p[1] > q[1] => p[2] >= q[2]
    /\ \A c \in Lattice : At(buffer[r], c) = chars[CharIdx(FieldAt(r, c)) + 1]

\* two cells of one tick with different field sums got different indexes, and
\* two others share an index
C12_Witness ==
  /\ Computed(1)
  /\ \E p, q \in Chosen(1) : p[1] > q[1] /\ p[2] > q[2] /\ q[2] > 0
  /\ \E p, q \in Chosen(1) : p[1] > q[1] /\ p[2] = q[2]

\* the single blob of radius 10 at (80, 28)
ExampleBlob == [SampleBlob(0) EXCEPT !.x = 800, !.y = 280, !.radius = 100]

\* C13: a cell at or below the threshold 0.95 gets ramp index 0 and a cell
\* with (fieldSum - 0.95) * 0.7 >= 1 gets the last index; for one blob of
\* radius 10 at (80, 28), cell (80, 28) has field sum 31.25 and the last
\* index, cell (110, 28) has field sum 250/908 and index 0.
C13_Endpoints ==
  /\ \A r \in Runs : Computed(r) =>
       \A c \in Cells :
         /\ FieldAt(r, c) <= 950 =>
              (CharIdx(FieldAt(r, c)) = 0 /\ At(buffer[r], c) = chars[1])
         /\ PreClamp(FieldAt(r, c)) >= 1000 =>
              (CharIdx(FieldAt(r, c)) = Len(chars) - 1 /\ At(buffer[r], c) = chars[Len(chars)])
  /\ SumField(80, 28, <<ExampleBlob>>, 1) = 31250
  /\ CharIdx(SumField(80, 28, <<ExampleBlob>>, 1)) = Len(chars) - 1
  /\ SumField(110, 28, <<ExampleBlob>>, 1) = 250000 \div 908
  /\ CharIdx(SumField(110, 28, <<ExampleBlob>>, 1)) = 0

\* one tick has a cell with a positive field below the threshold and a solid cell
C13_Witness ==
  /\ Computed(1)
  /\ \E c \in Cells : FieldAt(1, c) > 0 /\ FieldAt(1, c) <= 950 /\ At(buffer[1], c) = chars[1]
  /\ \E c \in Cells : PreClamp(FieldAt(1, c)) >= 1000 /\ At(buffer[1], c) = chars[Len(chars)]

\* C14 as claimed: the field sum is never negative and the value before the
\* clamps is never negative, so that the lower clamp never acts.
C14_ClampOnlyAbove ==
  \A r \in Runs : Computed(r) =>
    \A c \in Cells : FieldAt(r, c) >= 0 /\ PreClamp(FieldAt(r, c)) >= 0

\* C14 as amended: the field sum is never negative; the value before the
\* clamps is at least -0.665 and is negative exactly below the threshold,
\* where the lower clamp makes norm 0 (ramp index 0, a ramp glyph in the
\* buffer); norm lies in [0, 1].
C14_FieldNonNegative ==
  \A r \in Runs : Computed(r) =>
    \A c \in Cells :
      /\ FieldAt(r, c) >= 0
      /\ PreClamp(FieldAt(r, c)) >= 0 - 665
      /\ PreClamp(FieldAt(r, c)) < 0 <=> FieldAt(r, c) < 950
      /\ Norm(FieldAt(r, c)) \in 0 .. 1000
      /\ PreClamp(FieldAt(r, c)) < 0 =>
           (Norm(FieldAt(r, c)) = 0 /\ At(buffer[r], c) = chars[1])

\* in one tick the lower clamp acts on a cell, the upper clamp on another and
\* neither on a third
C14_Witness ==
  /\ Computed(1)
  /\ \E c \in Cells : PreClamp(FieldAt(1, c)) < 0
  /\ \E c \in Cells : PreClamp(FieldAt(1, c)) > 1000
  /\ \E c \in Cells : PreClamp(FieldAt(1, c)) \in 1 .. 999

\* C16: the clock is 0 at start(); every tick, and nothing else, advances it
\* by the one fixed increment; the n-th frame written is computed from the
\* clock of n increments, the first from one increment and not from 0; the
\* blobs of a tick are computed from the clock already advanced.
C16_FixedStepClock ==
  /\ [][Len(time') > Len(time) => time'[Len(time')] = 0]_vars
  /\ [][\A r \in Runs :
          /\ (cur = 0 /\ cur' = r) => time'[r] = time[r] + TimeStep
          /\ time'[r] # time[r] => (cur = 0 /\ cur' = r)]_vars
  /\ [](lastWrite.run # 0 =>
          /\ lastWrite.time = writes[lastWrite.run] * TimeStep
          /\ lastWrite.time >= TimeStep)
  /\ [](\A r \in Runs : Updated(r) =>
          \A i \in DOMAIN blobs[r] : blobs[r][i] = MoveBlob(blobs[r][i], time[r]))

\* the second tick of a run has moved the blobs and its first frame is written
C16_Witness ==
  \E r \in Runs :
    /\ cur = r
    /\ pc = "grid"
    /\ time[r] = 2 * TimeStep
    /\ writes[r] = 1
    /\ lastWrite.time = TimeStep

\* C17: every start() creates a closure with time = 0, numBlobs new blobs at
\* the centre of the grid with newly drawn parameters and an empty buffer,
\* and leaves the clock, blobs and buffer of every earlier run as they are.
C17_FreshStart ==
  [][Len(time') > Len(time) =>
       LET n == Len(time') IN
       /\ n = Len(time) + 1
       /\ time'[n] = 0
       /\ Len(blobs'[n]) = numBlobs
       /\ \A i \in DOMAIN blobs'[n] :
            /\ blobs'[n][i].x = (width * 10) \div 2
            /\ blobs'[n][i].y = (height * 10) \div 2
            /\ blobs'[n][i].speed \in 200 .. 599
            /\ blobs'[n][i].offset \in 0 .. 99999
            /\ blobs'[n][i].radius \in 50 .. 129
       /\ buffer'[n] = NewArray
       /\ \A r \in Runs :
            time'[r] = time[r] /\ blobs'[r] = blobs[r] /\ buffer'[r] = buffer[r]]_vars

\* the animator was restarted after a run whose ticks had moved its blobs
C17_Witness ==
  /\ Len(time) = 2
  /\ time[1] > 0
  /\ time[2] = 0
  /\ blobs[1][1].x # (width * 10) \div 2
  /\ blobs[2][1].x = (width * 10) \div 2

\* a step of a renderFrame call
TickStep == cur # 0 \/ cur' # 0

\* C18: a tick leaves unchanged the number of closures and of blobs, every
\* blob's speed, offset, kx and ky, the shape of the buffer, the ref, the
\* cancellation handles, and the clock, blobs and buffer of every closure
\* other than the one ticking.
C18_TickFrame ==
  [][TickStep =>
       /\ Len(time') = Len(time)
       /\ preRef' = preRef
       /\ animationId' = animationId
       /\ \A r \in Runs :
            /\ Len(blobs'[r]) = numBlobs
            /\ \A i \in DOMAIN blobs[r] :
                 /\ blobs'[r][i].speed = blobs[r][i].speed
                 /\ blobs'[r][i].offset = blobs[r][i].offset
                 /\ blobs'[r][i].kx = blobs[r][i].kx
                 /\ blobs'[r][i].ky = blobs[r][i].ky
            /\ DOMAIN buffer'[r] = 0 .. (height - 1)
            /\ \A y \in 0 .. (height - 1) : DOMAIN buffer'[r][y] = 0 .. (width - 1)
            /\ (r # cur /\ r # cur') =>
                 (time'[r] = time[r] /\ blobs'[r] = blobs[r] /\ buffer'[r] = buffer[r])]_vars

\* a whole tick has changed the clock, the blobs, the buffer and the text
C18_Witness ==
  /\ pc = "idle"
  /\ Len(time) = 1
  /\ time[1] = TimeStep
  /\ writes[1] = 1
  /\ buffer[1] # NewArray
  /\ innerText # <<>>
  /\ \E i \in DOMAIN blobs[1] : blobs[1][i].radius >= 60 /\ blobs[1][i].x # (width * 10) \div 2

\* runs r1 and r2 were created with the same draws that a tick can read
SameCreation(r1, r2) ==
  \A i \in DOMAIN blobs[r1] :
    /\ blobs[r1][i].kx = blobs[r2][i].kx
    /\ blobs[r1][i].ky = blobs[r2][i].ky
    /\ blobs[r1][i].speed = blobs[r2][i].speed
    /\ blobs[r1][i].offset = blobs[r2][i].offset
\* the buffers of r1 and r2 hold the complete frame of the same tick number
SameFrameNo(r1, r2) ==
  /\ bufStamp[r1][0] # Never
  /\ \A y \in 0 .. (height - 1) :
       bufStamp[r1][y] = bufStamp[r1][0] /\ bufStamp[r2][y] = bufStamp[r1][0]

SameSpeedOffset(r1, r2) ==
  \A i \in DOMAIN blobs[r1] :
    /\ blobs[r1][i].speed = blobs[r2][i].speed
    /\ blobs[r1][i].offset = blobs[r2][i].offset

\* C19: after a tick, two blobs with the same speed and offset, in whatever
\* runs and among whatever other blobs, have the same x, y and radius at the
\* same clock; two runs that agree on every blob's speed and offset hold the
\* same frame for the same tick, whatever kx, ky and the initial radius were.
C19_OwnParametersOnly ==
  \A r1, r2 \in Runs :
    /\ (Updated(r1) /\ Updated(r2) /\ time[r1] = time[r2]) =>
         \A i \in DOMAIN blobs[r1], j \in DOMAIN blobs[r2] :
           (blobs[r1][i].speed = blobs[r2][j].speed
              /\ blobs[r1][i].offset = blobs[r2][j].offset) =>
             /\ blobs[r1][i].x = blobs[r2][j].x
             /\ blobs[r1][i].y = blobs[r2][j].y
             /\ blobs[r1][i].radius = blobs[r2][j].radius
    /\ (SameSpeedOffset(r1, r2) /\ SameFrameNo(r1, r2)) => buffer[r1] = buffer[r2]

\* two runs that differ in kx hold the same frame of the same tick, not blank
C19_Witness ==
  /\ Len(time) = 2
  /\ SameSpeedOffset(1, 2)
  /\ \E i \in DOMAIN blobs[1] : blobs[1][i].kx # blobs[2][i].kx
  /\ SameFrameNo(1, 2)
  /\ buffer[1] = buffer[2]
  /\ \E c \in Lattice : At(buffer[2], c) # chars[1]

\* the .md files of the directory whose draft flag is not set
Published ==
  {i \in DOMAIN postsDirectory :
     /\ EndsWith(postsDirectory[i].fileName, Md)
     /\ postsDirectory[i].data.draft \in {"undefined", "false"}}
\* the listing is one post per published file, newest first, without drafts
ListsPublished ==
  /\ Len(allPostsData) = Cardinality(Published)
  /\ {allPostsData[k].slug : k \in DOMAIN allPostsData}
       = {StripMd(postsDirectory[i].fileName) : i \in Published}
  /\ \A k \in DOMAIN allPostsData : allPostsData[k].draft = "false"
  /\ \A j, k \in DOMAIN allPostsData : j < k => allPostsData[j].date >= allPostsData[k].date
\* some .md file cannot be read or parsed, or carries a date that is none
SomeMdFileFails ==
  \E i \in DOMAIN postsDirectory :
    /\ EndsWith(postsDirectory[i].fileName, Md)
    /\ ~postsDirectory[i].readable \/ postsDirectory[i].data.date.kind = "invalid"

DraftSlugs ==
  {StripMd(postsDirectory[i].fileName) : i \in
     {j \in DOMAIN postsDirectory :
        /\ EndsWith(postsDirectory[j].fileName, Md)
        /\ postsDirectory[j].data.draft = "true"}}

\* C21: a post whose frontmatter sets draft: true is absent from the listing
\* getAllPosts returns, from the slugs generateStaticParams hands to the
\* build, and is never the post getPostBySlug gives the post page.
C21_DraftsExcluded ==
  /\ \A k \in DOMAIN allPostsData : allPostsData[k].slug \notin DraftSlugs
  /\ \A k \in DOMAIN staticParams : staticParams[k].slug \notin DraftSlugs
  /\ \A k \in DOMAIN post : post[k].slug \notin DraftSlugs

\* the files stored under the slug requested, and whether one can be read
\* and parsed
StoredUnder(s) ==
  {i \in DOMAIN postsDirectory : postsDirectory[i].fileName = s \o Md}
Readable(i) ==
  postsDirectory[i].readable /\ postsDirectory[i].data.date.kind # "invalid"

\* C22: getPostBySlug(slug) returns the post of the file stored under the
\* slug, its slug field the argument and its content the file's whole body,
\* and the page shows it; when there is no such file or reading it fails the
\* result is null and the page answers not-found.
C22_PostOrNull ==
  page # "none" =>
    IF \E i \in StoredUnder(params) : Readable(i)
    THEN /\ Len(post) = 1
         /\ post[1].slug = params
         /\ \A i \in StoredUnder(params) : post[1].content = postsDirectory[i].body
         /\ page = "article"
    ELSE /\ post = <<>>
         /\ page = "notFound"

\* the page of slug 'a' shown with a body of 195 words, from a directory
\* whose other file cannot be read
C22_Witness ==
  /\ page = "article"
  /\ params = <<"a">>
  /\ Len(post) = 1
  /\ post[1].content = 195
  /\ \E i \in DOMAIN postsDirectory : ~postsDirectory[i].readable

\* C27: when reading or parsing one post file fails, getAllPosts returns
\* (it does not throw) and what it returns is the empty list, not the posts
\* of the files that can be read.
C27_FailureEmptiesListing ==
  (called /\ SomeMdFileFails) => Len(allPostsData) = 0

\* a directory of three .md files, two of them published posts that can be
\* read and one unreadable, listed as no post at all
C27_Witness ==
  /\ called
  /\ Len(postsDirectory) = 3
  /\ Cardinality({i \in Published : ~Throws(postsDirectory[i])}) = 2
  /\ \E i \in DOMAIN postsDirectory :
       EndsWith(postsDirectory[i].fileName, Md) /\ ~postsDirectory[i].readable
  /\ allPostsData = <<>>

\* ceil(words / 200) minutes, as the reading time is written
Minutes(words) == ToString((words + 199) \div 200) \o " min read"

\* C28: for a post whose frontmatter has no readTime, the reading time on the
\* post page is ceil(words / 200) minutes for the words of the post text, and
\* the listing reports the same value for that post.
C28_SameReadTime ==
  \A k \in DOMAIN allPostsData : \A j \in DOMAIN post : \A i \in StoredUnder(params) :
    (allPostsData[k].slug = post[j].slug /\ postsDirectory[i].data.readTime = "undefined")
      => /\ post[j].readTime = Minutes(postsDirectory[i].body)
         /\ allPostsData[k].readTime = post[j].readTime

\* C23: in every tick the index computed for every cell lies in
\* 0 .. chars.length - 1 and the cell holds the ramp character of that index,
\* never undefined; every frame written consists of ramp characters and line
\* breaks only.
C23_IndexInRamp ==
  /\ \A r \in Runs : Computed(r) =>
       \A c \in Cells :
         /\ CharIdx(FieldAt(r, c)) \in 0 .. (Len(chars) - 1)
         /\ At(buffer[r], c) \in RampGlyphs
         /\ At(buffer[r], c) # Undefined
  /\ \A i \in TextDomain : TextAt(innerText, i) \in RampGlyphs \cup {"\n"}

\* a tick whose grid holds cells of the first and of the last index, and the
\* frame written from it
C23_Witness ==
  /\ cur = 0
  /\ TextLen(innerText) > 0
  /\ lastWrite.run = 1
  /\ lastWrite.time = time[1]
  /\ \E c \in Cells : CharIdx(FieldAt(1, c)) = 0
  /\ \E c \in Cells : CharIdx(FieldAt(1, c)) = Len(chars) - 1

\* the characters a slug may consist of
SlugChars == {LowerCase[k] : k \in DOMAIN LowerCase} \cup Digits \cup {Hyphen}

\* C26: for every title, generateSlug(title) consists of a-z, 0-9 and '-'
\* only, holds no two hyphens in a row, and neither starts nor ends with a
\* hyphen.
C26_CleanSlug ==
  lastOp.mode = "generateSlug" =>
    /\ \A i \in DOMAIN slug : slug[i] \in SlugChars
    /\ \A i \in DOMAIN slug : i > 1 => ~(slug[i] = Hyphen /\ slug[i - 1] = Hyphen)
    /\ Len(slug) > 0 => (slug[1] # Hyphen /\ slug[Len(slug)] # Hyphen)

\* C24: a file of the posts directory that exists is overwritten only after
\* the user answered 'y', in the migration and in --new; otherwise the disk
\* is left as it was.
C24_OverwriteConfirmed ==
  (lastOp.existed /\ lastOp.written) => Confirms(lastOp.answer)

\* C25: every file the CLI writes lies directly in cwd/src/posts, whatever
\* the title and whatever slug the frontmatter of the input holds.
C25_WritesInsidePosts ==
  lastOp.written =>
    /\ Len(outputPath) = Len(outputDir) + 1
    /\ SubSeq(outputPath, 1, Len(outputDir)) = outputDir

\* C29: the title index stays within 0 .. titles.length - 1, the text shown
\* is the title of the index, and a mounted Home has exactly one active
\* interval, its own; once Home is unmounted no interval is active.  Every
\* call of updateTitle, by the interval or by the effect, moves the index
\* one position on, cyclically; the index changes in no other step (a mount
\* does not reset it), and no step of an unmounted Home changes it or the
\* title shown.
C29_TitleRotation ==
  /\ [](/\ currentTitleIndex \in 0 .. (Len(titles) - 1)
        /\ home = "mounted" =>
             (intervals = {intervalId[Len(intervalId)]} /\ textContent = titles[currentTitleIndex + 1])
        /\ home \in {"unmounted", "committed", "refreshing"} => intervals = {})
  /\ [][/\ lastUpdate' # lastUpdate =>
             /\ currentTitleIndex' = IF currentTitleIndex = Len(titles) - 1
                                      THEN 0 ELSE currentTitleIndex + 1
             /\ lastUpdate'.from = currentTitleIndex
             /\ lastUpdate'.to = currentTitleIndex'
        /\ lastUpdate' = lastUpdate => currentTitleIndex' = currentTitleIndex
        /\ (home = "unmounted" /\ home' = "unmounted") =>
             (currentTitleIndex' = currentTitleIndex /\ lastUpdate' = lastUpdate)
        /\ (lastUpdate' # lastUpdate /\ lastUpdate'.by = "timer") => intervals # {}]_vars

\* Home unmounted for the second time: its two intervals are cleared, the
\* index has gone round the titles once, and the second mount carried on
\* from the index the first one left
C29_Witness ==
  /\ home = "unmounted"
  /\ Len(intervalId) = 2
  /\ intervals = {}
  /\ lastUpdate.n = 5
  /\ lastUpdate.by = "timer"
  /\ lastUpdate.from = 0
  /\ currentTitleIndex = 1

====
